---- MODULE Spec2Model ----
(***************************************************************************)
(* A model of the staked tic-tac-toe program: the Game record and its      *)
(* play/update_state logic (src/src/state.rs) and the five instruction     *)
(* handlers create_game, accept_game, play_game, close_game, cancel_game   *)
(* (src/src/processor.rs) acting on the account store.                     *)
(*                                                                         *)
(* Three specifications are given.                                         *)
(*   SpecGame    the struct Game under repeated calls of Game::play, from  *)
(*               the record that create_game and accept_game write.        *)
(*   Spec        the instruction handlers over a store of game accounts,   *)
(*               token accounts and escrow accounts.                       *)
(*   SpecDecode  process_instruction decoding an instruction buffer        *)
(*               (src/src/instruction.rs) and choosing the handler.        *)
(***************************************************************************)
EXTENDS Integers, Sequences, FiniteSets, TLC

(***************************************************************************)
(* Bounds of the model.                                                    *)
(***************************************************************************)
\* row and col of a PlayGame instruction range over 0..MaxCoord
MaxCoord == 4
\* stake_amount of a stored game ranges over 1..MaxStake
MaxStake == 2
\* the token balance every player's token account starts with
InitBalance == 1
\* the first byte of an instruction buffer ranges over 0..MaxOpcode
MaxOpcode == 5
\* the bytes after the first of an instruction buffer number 0..MaxPayload
MaxPayload == 41

(***************************************************************************)
(* Identities.                                                             *)
(***************************************************************************)
\* the all-zero Pubkey that zeroed account data deserializes to
NoKey == "0"
Players == {"p1", "p2", "p3"}
Mints == {"m1", "m2"}
GameKeys == {"g1", "g2"}

(***************************************************************************)
(* src/src/state.rs                                                        *)
(***************************************************************************)
Symbols == {"X", "O"}
None == "None"

Unaccepted == [tag |-> "Unaccepted", winner |-> NoKey]
Ongoing == [tag |-> "Ongoing", winner |-> NoKey]
Draw == [tag |-> "Draw", winner |-> NoKey]
Over(w) == [tag |-> "Over", winner |-> w]

EmptyBoard == [r \in 0..2 |-> [c \in 0..2 |-> None]]

\* what try_from_slice_unchecked::<Game> reads from zeroed account data
ZeroGame ==
  [players |-> [i \in 0..1 |-> NoKey], board |-> EmptyBoard, state |-> Unaccepted,
   turns |-> 0, stake_mint |-> NoKey, stake_amount |-> 0, is_initialized |-> FALSE]

\* the record create_game writes (processor.rs 132-138)
NewGame(p1, p2, mint, amount) ==
  [players |-> [i \in 0..1 |-> IF i = 0 THEN p1 ELSE p2], board |-> EmptyBoard,
   state |-> Unaccepted, turns |-> 0, stake_mint |-> mint, stake_amount |-> amount,
   is_initialized |-> TRUE]

\* line i of the loop of update_state: row i, then column i
RowComplete(b, i) == b[i][0] # None /\ b[i][0] = b[i][1] /\ b[i][0] = b[i][2]
ColComplete(b, i) == b[0][i] # None /\ b[0][i] = b[1][i] /\ b[0][i] = b[2][i]

\* the player update_state names as winner: read after turns was incremented
current_player(g) == g.players[g.turns % 2]

\* update_state also ending the game on a completed diagonal
update_state_diagonals(g) ==
  IF \/ \E i \in 0..2 : RowComplete(g.board, i) \/ ColComplete(g.board, i)
     \/ g.board[1][1] # None /\ g.board[0][0] = g.board[1][1]
          /\ g.board[2][2] = g.board[1][1]
     \/ g.board[1][1] # None /\ g.board[0][2] = g.board[1][1]
          /\ g.board[2][0] = g.board[1][1]
  THEN [g EXCEPT !.state = Over(current_player(g))]
  ELSE IF g.turns = 9 THEN [g EXCEPT !.state = Draw]
  ELSE g

update_state(g) ==
  IF \E i \in 0..2 : RowComplete(g.board, i) \/ ColComplete(g.board, i)
  THEN [g EXCEPT !.state = Over(current_player(g))]
  ELSE IF g.turns = 9 THEN [g EXCEPT !.state = Draw]
  ELSE g

\* the symbol Game::play places
SymbolFor(turns) == IF turns % 2 = 0 THEN "X" ELSE "O"

\* the range check of Game::play (state.rs 33)
TileRejected(row, col) == row > 3 \/ col > 3

\* Game::play overwriting a tile that holds a symbol
Occupied_never(g, row, col) == FALSE

\* the tile check of Game::play (state.rs 36)
Occupied(g, row, col) == g.board[row][col] # None

\* Game::play: the result code and the value of *self afterwards.
\* board[row][col] with row = 3 or col = 3 is an out-of-bounds index of a
\* [[_; 3]; 3] array: the program panics there.
play(g, row, col) ==
  IF g.state = Unaccepted THEN [res |-> "UnacceptedGame", game |-> g]
  ELSE IF g.state # Ongoing THEN [res |-> "GameAlreayOver", game |-> g]
  ELSE IF TileRejected(row, col) THEN [res |-> "InvalidTileSelected", game |-> g]
  ELSE IF row > 2 \/ col > 2 THEN [res |-> "Panic", game |-> g]
  ELSE IF Occupied(g, row, col) THEN [res |-> "TileOccupied", game |-> g]
  ELSE [res |-> "Ok",
        game |-> update_state(
                   [g EXCEPT !.board[row][col] = SymbolFor(g.turns),
                             !.turns = g.turns + 1])]

(***************************************************************************)
(* State.                                                                  *)
(***************************************************************************)
VARIABLES
  owned,     \* owned[g]: the account g exists and is owned by this program
  games,     \* games[g]: the Game stored in the account's data
  lamports,  \* lamports[g]: the storage value held by the game account
  escrow,    \* escrow[m]: balance of the escrow token account of mint m
  tokens,    \* tokens[p][m]: balance of the token account of owner p, mint m
  wallet,    \* wallet[p]: lamports received by p from closed game accounts
  captured,  \* captured[g]: total moved into escrow for the game stored at g
  released,  \* released[g]: total moved out of escrow for the game stored at g
  mem,       \* the local variable `game` of the last play
  last       \* the last instruction: its inputs and its result

vars == <<owned, games, lamports, escrow, tokens, wallet, captured, released, mem, last>>
store == <<owned, games, lamports, escrow, tokens, wallet, captured, released>>

NoOp == [op |-> "none", res |-> "none"]

(***************************************************************************)
(* SpecGame: struct Game under Game::play.                                 *)
(***************************************************************************)
\* the record after create_game and accept_game have written it
AcceptedGame == [NewGame("p1", "p2", "m1", 1) EXCEPT !.state = Ongoing]

InitGame ==
  /\ owned = [g \in GameKeys |-> FALSE]
  /\ games = [g \in GameKeys |-> ZeroGame]
  /\ lamports = [g \in GameKeys |-> 0]
  /\ escrow = [m \in Mints |-> 0]
  /\ tokens = [p \in Players |-> [m \in Mints |-> 0]]
  /\ wallet = [p \in Players |-> 0]
  /\ captured = [g \in GameKeys |-> 0]
  /\ released = [g \in GameKeys |-> 0]
  /\ mem = AcceptedGame
  /\ last = NoOp

\* one call of Game::play on the value in memory
Play ==
  /\ last = NoOp
  /\ \E row \in 0..MaxCoord, col \in 0..MaxCoord :
    LET r == play(mem, row, col) IN
    /\ mem' = r.game
    /\ last' = [op |-> "play", res |-> r.res, row |-> row, col |-> col, before |-> mem]
    /\ UNCHANGED store

\* the caller reads the result and goes on with the same Game
Resume ==
  /\ last # NoOp
  /\ last' = NoOp
  /\ UNCHANGED <<store, mem>>

NextGame == Play \/ Resume

SpecGame == InitGame /\ [][NextGame]_vars


(***************************************************************************)
(* src/src/processor.rs                                                    *)
(***************************************************************************)
\* Rent::get()?.minimum_balance(Game::LEN): the storage value of a game account
Rent == 1

\* a token account of the token program, named by its owner and its mint
TokenAccts == [owner : Players, mint : Mints]

\* the games whose records create_game, accept_game and Game::play produce:
\* a new game, an accepted one, one a move away from a completed line or from
\* a full board, and the three ways a game ends
RECURSIVE PlayAll(_, _)
PlayAll(g, moves) ==
  IF moves = <<>> THEN g
  ELSE PlayAll(play(g, Head(moves)[1], Head(moves)[2]).game, Tail(moves))

XLine == <<<<0, 0>>, <<1, 0>>, <<0, 1>>, <<1, 1>>, <<0, 2>>>>
OLine == <<<<0, 0>>, <<1, 0>>, <<0, 1>>, <<1, 1>>, <<2, 2>>, <<1, 2>>>>
NoLine == <<<<0, 0>>, <<0, 1>>, <<0, 2>>, <<1, 1>>, <<1, 0>>, <<1, 2>>, <<2, 1>>,
            <<2, 0>>, <<2, 2>>>>

StoredGames ==
  LET created == {NewGame("p1", "p2", m, s) : m \in Mints, s \in 1..MaxStake}
      accepted == {[g EXCEPT !.state = Ongoing] : g \in created}
  IN created \cup accepted
       \cup {PlayAll(g, SubSeq(XLine, 1, 4)) : g \in accepted}
       \cup {PlayAll(g, SubSeq(NoLine, 1, 8)) : g \in accepted}
       \cup {PlayAll(g, XLine) : g \in accepted}
       \cup {PlayAll(g, OLine) : g \in accepted}
       \cup {PlayAll(g, NoLine) : g \in accepted}

\* the stake the escrow holds for a stored game: create_game captured
\* stake_amount, accept_game the same amount again
Held(g) == IF g.state = Unaccepted THEN g.stake_amount ELSE 2 * g.stake_amount

\* a second game, created by p2 for p3, still held in escrow
OtherGames ==
  LET created == {NewGame("p2", "p3", m, MaxStake) : m \in Mints}
  IN created \cup {[g EXCEPT !.state = Ongoing] : g \in created}

RECURSIVE Sum(_, _)
Sum(f, S) ==
  IF S = {} THEN 0 ELSE LET x == CHOOSE y \in S : TRUE IN f[x] + Sum(f, S \ {x})

\* the sum of the stakes held for the live game accounts of mint m
HeldFor(ow, gs, lam, m) ==
  Sum([g \in GameKeys |->
         IF ow[g] /\ lam[g] > 0 /\ gs[g].stake_mint = m THEN Held(gs[g]) ELSE 0],
      GameKeys)

(***************************************************************************)
(* Spec: the instruction handlers.  create_game writes no record (see      *)
(* below), so the handlers are run from every store that holds, at g1, no  *)
(* game or one of StoredGames and, at g2, no game or one of OtherGames,    *)
(* with the escrow of each mint holding exactly the stakes of these games. *)
(***************************************************************************)
Init ==
  /\ owned \in [GameKeys -> BOOLEAN]
  /\ games \in [GameKeys -> StoredGames \cup OtherGames \cup {ZeroGame}]
  /\ games["g1"] \in StoredGames \cup {ZeroGame}
  /\ games["g2"] \in OtherGames \cup {ZeroGame}
  /\ \A g \in GameKeys : owned[g] <=> games[g] # ZeroGame
  /\ lamports = [g \in GameKeys |-> IF owned[g] THEN Rent ELSE 0]
  /\ escrow = [m \in Mints |-> HeldFor(owned, games, lamports, m)]
  /\ tokens = [p \in Players |-> [m \in Mints |-> InitBalance]]
  /\ wallet = [p \in Players |-> 0]
  /\ captured = [g \in GameKeys |-> IF owned[g] THEN Held(games[g]) ELSE 0]
  /\ released = [g \in GameKeys |-> 0]
  /\ mem = ZeroGame
  /\ last = NoOp


\* which account of the instruction's account list is not the expected one
AcceptFaults == {"ok", "token_owner", "token_program", "escrow_key"}
CloseFaults == {"ok", "escrow_owner", "program_ids", "authority", "escrow_key", "recv_owner"}
CancelFaults == {"ok", "token_owner", "authority", "token_program", "escrow_key"}
CreateFaults == {"ok", "program_ids", "escrow_key"}

Credit(tk, ta, amount) == [tk EXCEPT ![ta.owner][ta.mint] = @ + amount]
Debit(tk, ta, amount) == [tk EXCEPT ![ta.owner][ta.mint] = @ - amount]

(***************************************************************************)
(* create_game (processor.rs 38-143).  Line 70 compares the keys of the    *)
(* mint and of the token account with the token program id, so it passes   *)
(* only when both accounts are the token program's own account; the data   *)
(* of that account is the program, not a token Account, and Account::unpack*)
(* at line 73 rejects it.  No execution goes past line 73.                 *)
(***************************************************************************)
CreateInputs ==
  {i \in [key : Players, signer : BOOLEAN, game_signer : BOOLEAN, player_two : Players,
          stake_amount : 0..MaxStake, fault : CreateFaults,
          mint_is_program : BOOLEAN, token_is_program : BOOLEAN] :
     \* the signers, the program ids and the escrow key vary one at a time, for
     \* one creator, invitee and stake
     /\ (~i.signer \/ ~i.game_signer \/ i.fault # "ok" \/ i.mint_is_program
           \/ i.token_is_program)
          => (i.key = "p1" /\ i.player_two = "p2" /\ i.stake_amount = MaxStake)
     /\ (~i.signer \/ ~i.game_signer) => (i.fault = "ok" /\ ~i.mint_is_program
                                            /\ ~i.token_is_program)
     /\ i.fault # "ok" => (~i.mint_is_program /\ ~i.token_is_program)}

\* create_game checking the stake only
InvalidCreateArgs_stake_only(key, player_two, stake_amount) == stake_amount = 0

\* the argument check of create_game (processor.rs 54)
InvalidCreateArgs(key, player_two, stake_amount) ==
  stake_amount = 0 \/ player_two = key

create_game_res(i) ==
  IF InvalidCreateArgs(i.key, i.player_two, i.stake_amount) THEN "InvalidArgument"
  ELSE IF ~i.signer \/ ~i.game_signer THEN "MissingRequiredSignature"
  ELSE IF i.fault = "program_ids" THEN "IncorrectProgramId"
  ELSE IF i.fault = "escrow_key" THEN "IncorrectProgramId"
  ELSE IF ~i.mint_is_program \/ ~i.token_is_program THEN "IllegalOwner"
  ELSE "InvalidAccountData"

CreateGame ==
  /\ last = NoOp
  /\ \E i \in CreateInputs :
    /\ last' = [op |-> "create", res |-> create_game_res(i), in |-> i]
    /\ UNCHANGED <<store, mem>>

(***************************************************************************)
(* accept_game (processor.rs 145-207)                                      *)
(***************************************************************************)
AcceptInputs ==
  {i \in [key : Players, signer : BOOLEAN, g : GameKeys, fault : AcceptFaults,
          ta : TokenAccts] :
     i.fault # "ok" => (i.signer /\ i.ta.owner = i.key)}

\* accept_game without its state check
AlreadyAccepted_never(game) == FALSE

\* the state check of accept_game (processor.rs 171)
AlreadyAccepted(game) == game.state # Unaccepted

\* accept_game letting any signer accept
UnauthorizedToAccept_never(game, key) == FALSE

\* the caller check of accept_game (processor.rs 168)
UnauthorizedToAccept(game, key) == game.players[1] # key

\* accept_game without its balance check
InsufficientFunds_never(balance, game) == FALSE

\* the balance check of accept_game (processor.rs 177)
InsufficientFunds(balance, game) == balance < game.stake_amount

accept_game_res(i) ==
  LET game == games[i.g] IN
  IF ~i.signer THEN "MissingRequiredSignature"
  ELSE IF ~owned[i.g] \/ i.fault = "token_owner" THEN "IllegalOwner"
  ELSE IF i.fault = "token_program" THEN "IncorrectProgramId"
  ELSE IF ~game.is_initialized THEN "UninitializedAccount"
  ELSE IF UnauthorizedToAccept(game, i.key) THEN "UnauthorizedToAccept"
  ELSE IF AlreadyAccepted(game) THEN "AlreadyAccepted"
  ELSE IF i.ta.owner # i.key THEN "InvalidArgument"
  ELSE IF InsufficientFunds(tokens[i.ta.owner][i.ta.mint], game) THEN "InsufficientFunds"
  ELSE IF i.fault = "escrow_key" THEN "InvalidArgument"
  \* the token program's transfer: the source must hold the amount, and the
  \* source and destination mints must agree
  ELSE IF tokens[i.ta.owner][i.ta.mint] < game.stake_amount THEN "TokenInsufficientFunds"
  ELSE IF i.ta.mint # game.stake_mint THEN "MintMismatch"
  ELSE "Ok"

AcceptGame ==
  /\ last = NoOp
  /\ \E i \in AcceptInputs :
    LET res == accept_game_res(i)
        game == games[i.g] IN
    /\ last' = [op |-> "accept", res |-> res, in |-> i]
    /\ IF res = "Ok"
       THEN /\ tokens' = Debit(tokens, i.ta, game.stake_amount)
            /\ escrow' = [escrow EXCEPT ![game.stake_mint] = @ + game.stake_amount]
            /\ captured' = [captured EXCEPT ![i.g] = @ + game.stake_amount]
            /\ games' = [games EXCEPT ![i.g].state = Ongoing]
            /\ UNCHANGED <<owned, lamports, wallet, released, mem>>
       ELSE UNCHANGED <<store, mem>>

(***************************************************************************)
(* play_game (processor.rs 209-232): the game is deserialized, played and  *)
(* dropped; the handler has no serialize call.  The call at line 229 also  *)
(* passes player.key; Game::play (state.rs 26) takes row and col and reads *)
(* no key, so the key of the signer decides nothing.                       *)
(***************************************************************************)
PlayInputs ==
  {i \in [key : Players, signer : BOOLEAN, g : GameKeys, row : 0..MaxCoord,
          col : 0..MaxCoord] :
     /\ ~i.signer => (i.row = 0 /\ i.col = 0)
     \* every tile of the board, and the coordinates past it along one axis
     /\ (i.row > 2 \/ i.col > 2) => (i.row = 0 \/ i.col = 0)}

\* the record the account holds after play_game played `after` in memory
play_game_stored(before, after) == before

PlayGame ==
  /\ last = NoOp
  /\ \E i \in PlayInputs :
    IF ~i.signer
    THEN /\ last' = [op |-> "play", res |-> "MissingRequiredSignature", in |-> i]
         /\ UNCHANGED <<store, mem>>
    ELSE IF ~owned[i.g]
    THEN /\ last' = [op |-> "play", res |-> "IllegalOwner", in |-> i]
         /\ UNCHANGED <<store, mem>>
    ELSE LET r == play(games[i.g], i.row, i.col) IN
         /\ last' = [op |-> "play", res |-> r.res, in |-> i]
         /\ mem' = r.game
         /\ games' = [games EXCEPT ![i.g] = play_game_stored(@, r.game)]
         /\ UNCHANGED <<owned, lamports, escrow, tokens, wallet, captured, released>>


(***************************************************************************)
(* close_game (processor.rs 234-348).  player_one.is_signer is never read. *)
(***************************************************************************)
CloseInputs ==
  {i \in [key : Players, signer : BOOLEAN, g : GameKeys, fault : CloseFaults,
          r1 : TokenAccts, r2 : TokenAccts] :
     /\ i.fault # "ok" => (i.signer /\ i.r1 = i.r2)
     /\ games[i.g].state # Draw => i.r2 = i.r1}

\* close_game paying the winner one stake instead of two
WinnerPayout_single(game) == game.stake_amount

\* the amount close_game pays to the winner (the token program rejects a
\* transfer that exceeds the escrow balance, so the product stays within u64)
WinnerPayout(game) == 2 * game.stake_amount
\* the amount close_game pays to each player of a drawn game
DrawPayout(game) == game.stake_amount

\* close_game with the Ongoing branch of its state check left out
close_state_check_no_ongoing(game) ==
  IF game.state = Unaccepted THEN "UnacceptedGame" ELSE "Ok"

\* the state check of close_game (processor.rs 271-274)
close_state_check(game) ==
  IF game.state = Unaccepted THEN "UnacceptedGame"
  ELSE IF game.state = Ongoing THEN "OngoingGame"
  ELSE "Ok"

close_game_res(i) ==
  LET game == games[i.g] IN
  IF ~owned[i.g] THEN "IllegalOwner"
  ELSE IF i.fault = "escrow_owner" THEN "IllegalOwner"
  ELSE IF i.fault = "program_ids" THEN "IncorrectProgramId"
  ELSE IF i.fault = "authority" THEN "InvalidArgument"
  ELSE IF i.key # game.players[0] THEN "InvalidArgument"
  ELSE IF i.fault = "escrow_key" THEN "InvalidArgument"
  ELSE IF close_state_check(game) # "Ok" THEN close_state_check(game)
  ELSE IF game.state = Draw
  THEN IF i.fault = "recv_owner" THEN "InvalidArgument"
       ELSE IF i.r1.owner # game.players[0] \/ i.r2.owner # game.players[1]
       THEN "InvalidArgument"
       ELSE IF i.r1.mint # game.stake_mint \/ i.r2.mint # game.stake_mint
       THEN "InvalidArgument"
       \* the token program's two transfers out of the escrow
       ELSE IF escrow[game.stake_mint] < DrawPayout(game) THEN "TokenInsufficientFunds"
       ELSE IF escrow[game.stake_mint] - DrawPayout(game) < DrawPayout(game)
       THEN "TokenInsufficientFunds"
       ELSE "Ok"
  ELSE IF i.fault = "recv_owner" THEN "IllegalOwner"
       ELSE IF i.r1.owner # game.state.winner \/ i.r1.mint # game.stake_mint
       THEN "InvalidArgument"
       ELSE IF escrow[game.stake_mint] < WinnerPayout(game) THEN "TokenInsufficientFunds"
       ELSE "Ok"

\* the token balances after the payouts of a successful close
close_game_tokens(i) ==
  LET game == games[i.g] IN
  IF game.state = Draw
  THEN Credit(Credit(tokens, i.r1, DrawPayout(game)), i.r2, DrawPayout(game))
  ELSE Credit(tokens, i.r1, WinnerPayout(game))

\* the total a successful close moves out of the escrow
close_game_paid(game) ==
  IF game.state = Draw THEN DrawPayout(game) + DrawPayout(game) ELSE WinnerPayout(game)

CloseGame ==
  /\ last = NoOp
  /\ \E i \in CloseInputs :
    LET res == close_game_res(i)
        game == games[i.g] IN
    /\ last' = [op |-> "close", res |-> res, in |-> i]
    /\ IF res = "Ok"
       THEN /\ tokens' = close_game_tokens(i)
            /\ escrow' = [escrow EXCEPT ![game.stake_mint] = @ - close_game_paid(game)]
            /\ released' = [released EXCEPT ![i.g] = @ + close_game_paid(game)]
            /\ wallet' = [wallet EXCEPT ![i.key] = @ + lamports[i.g]]
            /\ lamports' = [lamports EXCEPT ![i.g] = 0]
            /\ UNCHANGED <<owned, games, captured, mem>>
       ELSE UNCHANGED <<store, mem>>

(***************************************************************************)
(* cancel_game (processor.rs 350-419)                                      *)
(***************************************************************************)
CancelInputs ==
  {i \in [key : Players, signer : BOOLEAN, g : GameKeys, fault : CancelFaults,
          ta : TokenAccts] :
     i.fault # "ok" => (i.signer /\ i.ta.owner = i.key)}

\* cancel_game without its state check
Unclosable_never(game) == FALSE

\* the state check of cancel_game (processor.rs 378)
Unclosable(game) == game.state # Unaccepted

cancel_game_res(i) ==
  LET game == games[i.g] IN
  IF ~i.signer THEN "MissingRequiredSignature"
  ELSE IF ~owned[i.g] THEN "IllegalOwner"
  ELSE IF i.fault = "token_owner" THEN "InvalidArgument"
  ELSE IF i.fault = "authority" THEN "InvalidArgument"
  ELSE IF i.fault = "token_program" THEN "IncorrectProgramId"
  ELSE IF Unclosable(game) THEN "UnclosableGame"
  ELSE IF i.key # game.players[0] THEN "UnauthorizedToClose"
  ELSE IF i.fault = "escrow_key" THEN "InvalidArgument"
  ELSE IF i.ta.owner # i.key THEN "InvalidArgument"
  ELSE IF i.ta.mint # game.stake_mint THEN "InvalidArgument"
  \* the token program's transfer out of the escrow
  ELSE IF escrow[game.stake_mint] < game.stake_amount THEN "TokenInsufficientFunds"
  ELSE "Ok"

\* the amount cancel_game refunds
CancelRefund(game) == game.stake_amount

CancelGame ==
  /\ last = NoOp
  /\ \E i \in CancelInputs :
    LET res == cancel_game_res(i)
        game == games[i.g] IN
    /\ last' = [op |-> "cancel", res |-> res, in |-> i]
    /\ IF res = "Ok"
       THEN /\ tokens' = Credit(tokens, i.ta, CancelRefund(game))
            /\ escrow' = [escrow EXCEPT ![game.stake_mint] = @ - CancelRefund(game)]
            /\ released' = [released EXCEPT ![i.g] = @ + CancelRefund(game)]
            /\ wallet' = [wallet EXCEPT ![i.key] = @ + lamports[i.g]]
            /\ lamports' = [lamports EXCEPT ![i.g] = 0]
            /\ UNCHANGED <<owned, games, captured, mem>>
       ELSE UNCHANGED <<store, mem>>

(***************************************************************************)
(* The end of a transaction.  close_game and cancel_game only move the     *)
(* lamports out of the game account (processor.rs 343-345, 414-416): the   *)
(* data and the owner stay as they are, and the account is removed only    *)
(* when the transaction that holds the instruction ends.  Instructions of  *)
(* the same transaction that follow still find the record.                 *)
(***************************************************************************)
Drained(g) == owned[g] /\ lamports[g] = 0

EndTransaction ==
  /\ last = NoOp
  /\ \E g \in GameKeys : Drained(g)
  /\ owned' = [g \in GameKeys |-> owned[g] /\ ~Drained(g)]
  /\ games' = [g \in GameKeys |-> IF Drained(g) THEN ZeroGame ELSE games[g]]
  /\ UNCHANGED <<lamports, escrow, tokens, wallet, captured, released, mem, last>>

\* process_instruction returns the result; the handler's locals are dropped
Return ==
  /\ last # NoOp
  /\ last' = NoOp
  /\ mem' = ZeroGame
  /\ UNCHANGED store

Next ==
  \/ CreateGame
  \/ AcceptGame
  \/ PlayGame
  \/ CloseGame
  \/ CancelGame
  \/ EndTransaction
  \/ Return

Spec == Init /\ [][Next]_vars

(***************************************************************************)
(* SpecPlay: the stores of Spec with only plays submitted, again and       *)
(* again.  An instruction that was started returns, and for every game a   *)
(* play by the turn owner that Game::play accepts is taken infinitely      *)
(* often if it is possible infinitely often (it is possible only between   *)
(* instructions, so the condition is the strong one).  Every behaviour of  *)
(* SpecPlay is a behaviour of Spec.                                        *)
(***************************************************************************)
ValidPlay(g) ==
  /\ PlayGame
  /\ last'.op = "play" /\ last'.res = "Ok" /\ last'.in.g = g
  /\ last'.in.key = games[g].players[games[g].turns % 2]

NextPlay == PlayGame \/ Return

SpecPlay ==
  /\ Init
  /\ [][NextPlay]_vars
  /\ WF_vars(Return)
  /\ \A g \in GameKeys : SF_vars(ValidPlay(g))

(***************************************************************************)
(* src/src/instruction.rs, and SpecDecode: process_instruction up to the   *)
(* choice of the handler.                                                  *)
(***************************************************************************)
\* the bytes of a Pubkey: rest[..32]
PubkeyLen == 32
\* the bytes of a CreateGame payload: rest[32..40] ends it
CreateLen == 40
\* the bytes of a PlayGame payload
PlayLen == 2

\* u64::deserialize: eight bytes, least significant first
RECURSIVE LittleEndian(_)
LittleEndian(bytes) ==
  IF bytes = <<>> THEN 0 ELSE Head(bytes) + 256 * LittleEndian(Tail(bytes))

\* the instruction buffers: the empty one, and those of a first byte, a
\* payload of 0..MaxPayload bytes whose first two are row and col values and
\* whose other bytes are zero
Buffers ==
  {<<>>} \cup
  {[k \in 1..(n + 1) |-> IF k = 1 THEN op ELSE IF k = 2 THEN b0
                         ELSE IF k = 3 THEN b1 ELSE 0] :
     op \in 0..MaxOpcode, n \in 0..MaxPayload, b0 \in 0..MaxCoord, b1 \in {0, MaxCoord}}

\* Instruction::unpack_from_slice.  split_first().unwrap() panics on an empty
\* buffer; rest[..32] and rest[32..40] panic when rest is shorter.
unpack_from_slice(data) ==
  IF data = <<>> THEN [res |-> "Panic", variant |-> "none"]
  ELSE LET first == Head(data)
           rest == Tail(data)
       IN IF first = 0
          THEN IF Len(rest) < PubkeyLen THEN [res |-> "Panic", variant |-> "none"]
               ELSE IF Len(rest) < CreateLen THEN [res |-> "Panic", variant |-> "none"]
               ELSE [res |-> "Ok", variant |-> "CreateGame",
                     player_two |-> SubSeq(rest, 1, PubkeyLen),
                     stake_amount |-> LittleEndian(SubSeq(rest, PubkeyLen + 1, CreateLen))]
          ELSE IF first = 1 THEN [res |-> "Ok", variant |-> "AcceptGame"]
          ELSE IF first = 2
          THEN IF Len(rest) # PlayLen
               THEN [res |-> "InvalidInstructionData", variant |-> "none"]
               ELSE [res |-> "Ok", variant |-> "PlayGame", row |-> rest[1], col |-> rest[2]]
          ELSE IF first = 3 THEN [res |-> "Ok", variant |-> "CloseGame"]
          ELSE IF first = 4 THEN [res |-> "Ok", variant |-> "CancelGame"]
          ELSE [res |-> "InvalidInstructionData", variant |-> "none"]

\* the handler process_instruction calls for a decoded instruction
Handler(instruction) ==
  CASE instruction.variant = "CreateGame" -> "create_game"
    [] instruction.variant = "AcceptGame" -> "accept_game"
    [] instruction.variant = "PlayGame" -> "play_game"
    [] instruction.variant = "CloseGame" -> "close_game"
    [] instruction.variant = "CancelGame" -> "cancel_game"
    [] OTHER -> "none"

InitDecode ==
  /\ owned = [g \in GameKeys |-> FALSE]
  /\ games = [g \in GameKeys |-> ZeroGame]
  /\ lamports = [g \in GameKeys |-> 0]
  /\ escrow = [m \in Mints |-> 0]
  /\ tokens = [p \in Players |-> [m \in Mints |-> 0]]
  /\ wallet = [p \in Players |-> 0]
  /\ captured = [g \in GameKeys |-> 0]
  /\ released = [g \in GameKeys |-> 0]
  /\ mem = ZeroGame
  /\ last = NoOp

\* process_instruction (processor.rs 25-35): decode, then call the handler
ProcessInstruction ==
  /\ last = NoOp
  /\ \E data \in Buffers :
    LET instruction == unpack_from_slice(data) IN
    /\ last' = [op |-> "process", res |-> instruction.res, data |-> data,
                instruction |-> instruction, dispatched |-> Handler(instruction)]
    /\ UNCHANGED <<store, mem>>

NextDecode == ProcessInstruction \/ Return

SpecDecode == InitDecode /\ [][NextDecode]_vars


(***************************************************************************)
(* Properties.                                                             *)
(***************************************************************************)
Terminal(game) == game.state = Draw \/ game.state.tag = "Over"

\* C1: whenever every closed or cancelled game account has been removed, the
\* escrow balance of each mint equals the sum of the stakes held for the games
\* of that mint that still exist: stake_amount for an Unaccepted game, twice
\* stake_amount for an Ongoing, Over or Draw game.
C1_EscrowEqualsHeld ==
  (last = NoOp /\ \A g \in GameKeys : ~Drained(g))
    => \A m \in Mints : escrow[m] = HeldFor(owned, games, lamports, m)

\* C2: for every game the total released from escrow never exceeds the total
\* captured into escrow for it, and once the game account is gone the two are
\* equal.
C2_ReleasedEqualsCaptured ==
  \A g \in GameKeys :
    /\ released[g] <= captured[g]
    /\ (~owned[g] /\ captured[g] > 0) => released[g] = captured[g]

\* C3: a successful play that completes a row or a column leaves the game Over
\* with winner players[turns mod 2] for the value of turns before the move,
\* the player who made the move.
C3_WinnerIsActingPlayer ==
  (/\ last.op = "play"
   /\ last.res = "Ok"
   /\ \E k \in 0..2 : RowComplete(mem.board, k) \/ ColComplete(mem.board, k))
    => mem.state = Over(last.before.players[last.before.turns % 2])


\* C4: a successful close pays exactly twice stake_amount to an account owned
\* by the winner and holding stake_mint when the game is Over, and exactly
\* stake_amount to an account of players[0] and to one of players[1], both
\* holding stake_mint, when it is Draw; it pays nobody else; a close of a
\* terminal game by players[0] with a receiving account of another owner or
\* mint fails with InvalidArgument; a failed close pays nothing.
C4_CloseStep ==
  LET i == last'.in
      game == games[i.g]
      m == game.stake_mint
      amt == game.stake_amount
      wrongOver == i.r1.owner # game.state.winner \/ i.r1.mint # m
      wrongDraw == \/ i.r1.owner # game.players[0] \/ i.r2.owner # game.players[1]
                   \/ i.r1.mint # m \/ i.r2.mint # m
  IN last'.op = "close" =>
       /\ last'.res = "Ok" =>
            /\ Terminal(game)
            /\ escrow' = [escrow EXCEPT ![m] = @ - 2 * amt]
            /\ game.state.tag = "Over" =>
                 /\ ~wrongOver
                 /\ tokens' = [tokens EXCEPT ![game.state.winner][m] = @ + 2 * amt]
            /\ game.state = Draw =>
                 /\ ~wrongDraw
                 /\ tokens' = [tokens EXCEPT ![game.players[0]][m] = @ + amt,
                                             ![game.players[1]][m] = @ + amt]
       /\ last'.res # "Ok" => UNCHANGED store
       /\ (/\ owned[i.g] /\ i.fault = "ok" /\ i.key = game.players[0]
           /\ \/ game.state.tag = "Over" /\ wrongOver
              \/ game.state = Draw /\ wrongDraw)
            => last'.res = "InvalidArgument"

C4_ClosePaysEntitled == [][C4_CloseStep]_vars

\* a close of a drawn game has paid both players
C4_Witness ==
  /\ last.op = "close" /\ last.res = "Ok"
  /\ games[last.in.g].state = Draw
  /\ tokens["p1"][games[last.in.g].stake_mint] > InitBalance
  /\ tokens["p2"][games[last.in.g].stake_mint] > InitBalance

\* C5: the state of a stored game changes only from Unaccepted to Ongoing and
\* only by a successful accept; a play leaves an Unaccepted game as it is,
\* takes an Ongoing game to Ongoing, Over or Draw, and on an Over or Draw game
\* fails with GameAlreayOver and changes neither state, board nor turns; an
\* accept of a game that is not Unaccepted fails and changes nothing, with
\* AlreadyAccepted when players[1] submits it.
C5_Step ==
  /\ \A g \in GameKeys :
       (owned[g] /\ owned'[g] /\ games'[g] # games[g]) =>
         /\ games[g].state = Unaccepted
         /\ games'[g] = [games[g] EXCEPT !.state = Ongoing]
         /\ last'.op = "accept" /\ last'.res = "Ok" /\ last'.in.g = g
  /\ (last'.op = "play" /\ last'.in.signer /\ owned[last'.in.g]) =>
       LET before == games[last'.in.g] IN
       /\ Terminal(before) => (last'.res = "GameAlreayOver" /\ mem' = before)
       /\ before.state = Unaccepted => (last'.res = "UnacceptedGame" /\ mem' = before)
       /\ before.state = Ongoing =>
            mem'.state \in {Ongoing, Draw} \cup {Over(before.players[k]) : k \in 0..1}
  /\ (last'.op = "accept" /\ owned[last'.in.g]
        /\ games[last'.in.g].state # Unaccepted) =>
       /\ last'.res # "Ok"
       /\ UNCHANGED store
       /\ (last'.in.signer /\ last'.in.fault = "ok"
             /\ last'.in.key = games[last'.in.g].players[1])
            => last'.res = "AlreadyAccepted"

C5_StateOrder == [][C5_Step]_vars

\* a play has taken an Ongoing game to Over
C5_Witness ==
  /\ last.op = "play" /\ last.res = "Ok"
  /\ games[last.in.g].state = Ongoing
  /\ mem.state.tag = "Over"

\* C6: a close succeeds only when players[0] signed it.
C6_CloseNeedsSigner ==
  (last.op = "close" /\ last.res = "Ok")
    => (last.in.signer /\ last.in.key = games[last.in.g].players[0])

\* C7: a close of an Unaccepted or Ongoing game fails and changes no balance
\* and no record; submitted for players[0] with the expected accounts it fails
\* with UnacceptedGame, respectively OngoingGame; a close that moves funds out
\* of escrow acts on an Over or Draw game.
C7_Step ==
  LET i == last'.in
      game == games[i.g]
  IN last'.op = "close" =>
       /\ (owned[i.g] /\ ~Terminal(game)) =>
            /\ last'.res # "Ok"
            /\ UNCHANGED store
            /\ (i.fault \in {"ok", "recv_owner"} /\ i.key = game.players[0]) =>
                 last'.res = (IF game.state = Unaccepted THEN "UnacceptedGame"
                              ELSE "OngoingGame")
       /\ escrow' # escrow => (owned[i.g] /\ Terminal(game))

C7_CloseNeedsTerminal == [][C7_Step]_vars

\* a close of an Ongoing game was refused
C7_Witness ==
  /\ last.op = "close" /\ last.res = "OngoingGame"
  /\ games[last.in.g].state = Ongoing

\* C8: a successful cancel acts on an Unaccepted game, is signed by players[0],
\* refunds exactly stake_amount from the escrow of stake_mint to an account
\* owned by players[0] holding stake_mint and moves the lamports of the game
\* account to players[0]; a signed cancel of a game that is not Unaccepted
\* fails with UnclosableGame, one of an Unaccepted game signed by another key
\* fails with UnauthorizedToClose; a failed cancel changes nothing.
C8_Step ==
  LET i == last'.in
      game == games[i.g]
      m == game.stake_mint
      amt == game.stake_amount
      p0 == game.players[0]
  IN last'.op = "cancel" =>
       /\ last'.res = "Ok" =>
            /\ owned[i.g] /\ game.state = Unaccepted
            /\ i.signer /\ i.key = p0
            /\ i.ta = [owner |-> p0, mint |-> m]
            /\ tokens' = [tokens EXCEPT ![p0][m] = @ + amt]
            /\ escrow' = [escrow EXCEPT ![m] = @ - amt]
            /\ wallet' = [wallet EXCEPT ![p0] = @ + lamports[i.g]]
            /\ lamports' = [lamports EXCEPT ![i.g] = 0]
       /\ last'.res # "Ok" => UNCHANGED store
       /\ (i.signer /\ owned[i.g] /\ i.fault \in {"ok", "escrow_key"}) =>
            /\ game.state # Unaccepted => last'.res = "UnclosableGame"
            /\ (game.state = Unaccepted /\ i.key # p0) => last'.res = "UnauthorizedToClose"

C8_Cancel == [][C8_Step]_vars

\* a cancel has refunded the creator and emptied the game account
C8_Witness ==
  /\ last.op = "cancel" /\ last.res = "Ok"
  /\ lamports[last.in.g] = 0
  /\ wallet[last.in.key] > 0

\* C9: once a close or a cancel has succeeded on a game account, no accept,
\* play, close or cancel naming that account succeeds.
C9_Step ==
  (last'.op \in {"accept", "play", "close", "cancel"} /\ Drained(last'.in.g))
    => last'.res # "Ok"

C9_RecordGoneAfterSettle == [][C9_Step]_vars

\* C10: after a successful play(row, col) the stored record holds the symbol of
\* the mover at (row, col) and its turns is one greater than before.
C10_Step ==
  LET i == last'.in IN
  (last'.op = "play" /\ last'.res = "Ok") =>
    /\ games'[i.g].board[i.row][i.col] = SymbolFor(games[i.g].turns)
    /\ games'[i.g].turns = games[i.g].turns + 1
    /\ \A r \in 0..2, c \in 0..2 :
         <<r, c>> # <<i.row, i.col>> => games'[i.g].board[r][c] = games[i.g].board[r][c]

C10_PlayIsStored == [][C10_Step]_vars

\* C11: the turns of a stored game lies in 0..9; while the game account
\* exists its turns never decreases, is one greater after each successful play
\* naming the account, and is unchanged by every other step.
C11_Step ==
  /\ \A g \in GameKeys : owned[g] => games[g].turns \in 0..9
  /\ \A g \in GameKeys :
       (owned[g] /\ owned'[g]) =>
         /\ games'[g].turns >= games[g].turns
         /\ IF last'.op = "play" /\ last'.res = "Ok" /\ last'.in.g = g
            THEN games'[g].turns = games[g].turns + 1
            ELSE games'[g].turns = games[g].turns

C11_TurnsCount == [][C11_Step]_vars

\* C12: a signed play on an Ongoing game, on an empty tile with row and col in
\* 0..2, by a key other than players[turns mod 2], fails with CanNotPlay and
\* changes neither the game in memory nor the stored one.
C12_Step ==
  LET i == last'.in
      game == games[i.g]
  IN (/\ last'.op = "play" /\ i.signer /\ owned[i.g]
      /\ game.state = Ongoing
      /\ i.row \in 0..2 /\ i.col \in 0..2
      /\ game.board[i.row][i.col] = None
      /\ i.key # game.players[game.turns % 2])
       => (last'.res = "CanNotPlay" /\ mem' = game /\ games'[i.g] = game)

C12_OnlyTurnOwnerPlays == [][C12_Step]_vars

\* C13: a play on an Ongoing game with row or col outside 0..2 fails with
\* InvalidTileSelected and leaves board, turns and state as they were.
C13_InvalidTile ==
  (last.op = "play" /\ last.before.state = Ongoing /\ (last.row > 2 \/ last.col > 2))
    => (last.res = "InvalidTileSelected" /\ mem = last.before)

\* C14: a tile that holds a symbol holds the same symbol after every step; a
\* play on such a tile does not succeed and leaves board, turns and state as
\* they were, and on an Ongoing game it fails with TileOccupied.
C14_Step ==
  /\ \A r \in 0..2, c \in 0..2 :
       mem.board[r][c] # None => mem'.board[r][c] = mem.board[r][c]
  /\ (/\ last'.op = "play"
      /\ last'.row \in 0..2 /\ last'.col \in 0..2
      /\ mem.board[last'.row][last'.col] # None)
       => /\ last'.res # "Ok"
          /\ mem' = mem
          /\ mem.state = Ongoing => last'.res = "TileOccupied"

C14_TileKeepsSymbol == [][C14_Step]_vars

\* a play on a tile that holds a symbol was refused
C14_Witness ==
  /\ last.op = "play" /\ last.res = "TileOccupied"
  /\ last.before.board[last.row][last.col] # None
  /\ mem = last.before

\* C15: a successful accept is signed by players[1], acts on an Unaccepted
\* game and draws on an account owned by the caller, of stake_mint, holding at
\* least stake_amount; it moves exactly stake_amount from that account into
\* the escrow of stake_mint and stores the state Ongoing, after which twice
\* stake_amount has been moved into the escrow for the game and, if nothing
\* was released for it before, is held for it.  The same accept from an
\* account holding less than stake_amount fails with InsufficientFunds.
C15_Step ==
  LET i == last'.in
      game == games[i.g]
      m == game.stake_mint
      amt == game.stake_amount
  IN last'.op = "accept" =>
       /\ last'.res = "Ok" =>
            /\ i.signer /\ owned[i.g]
            /\ i.key = game.players[1]
            /\ game.state = Unaccepted
            /\ i.ta = [owner |-> i.key, mint |-> m]
            /\ tokens[i.key][m] >= amt
            /\ tokens' = [tokens EXCEPT ![i.key][m] = @ - amt]
            /\ escrow' = [escrow EXCEPT ![m] = @ + amt]
            /\ games' = [games EXCEPT ![i.g].state = Ongoing]
            /\ UNCHANGED <<owned, lamports, wallet, released>>
            /\ released[i.g] = 0 => captured'[i.g] - released'[i.g] = 2 * amt
       /\ (/\ i.signer /\ owned[i.g] /\ i.fault \in {"ok", "escrow_key"}
           /\ i.key = game.players[1] /\ game.state = Unaccepted
           /\ i.ta.owner = i.key
           /\ tokens[i.ta.owner][i.ta.mint] < amt)
            => (last'.res = "InsufficientFunds" /\ UNCHANGED store)

C15_Accept == [][C15_Step]_vars

\* an accept has moved the second stake into the escrow of the only game
C15_Witness ==
  /\ last.op = "accept" /\ last.res = "Ok"
  /\ games[last.in.g].state = Ongoing
  /\ \A h \in GameKeys \ {last.in.g} : ~owned[h]
  /\ escrow[games[last.in.g].stake_mint] = 2 * games[last.in.g].stake_amount
  /\ tokens[last.in.key][games[last.in.g].stake_mint]
       = InitBalance - games[last.in.g].stake_amount

\* C16: a signed accept with the expected accounts fails with
\* UnauthorizedToAccept when the caller is not players[1], and with
\* AlreadyAccepted when players[1] submits it for a game that is not
\* Unaccepted; no accept of a game that is not Unaccepted succeeds; a failed
\* accept changes no record and no balance; the total captured for a game
\* never exceeds twice its stake_amount.
C16_Step ==
  LET i == last'.in
      game == games[i.g]
  IN /\ last'.op = "accept" =>
          /\ last'.res # "Ok" => UNCHANGED store
          /\ (owned[i.g] /\ game.state # Unaccepted) => last'.res # "Ok"
          /\ (i.signer /\ owned[i.g] /\ i.fault \in {"ok", "escrow_key"}) =>
               /\ i.key # game.players[1] => last'.res = "UnauthorizedToAccept"
               /\ (i.key = game.players[1] /\ game.state # Unaccepted)
                    => last'.res = "AlreadyAccepted"
     /\ \A g \in GameKeys :
          /\ owned[g] => captured[g] <= 2 * games[g].stake_amount
          /\ owned'[g] => captured'[g] <= 2 * games'[g].stake_amount

C16_AcceptRefused == [][C16_Step]_vars

\* an accept by a key other than players[1] was refused
C16_Witness ==
  /\ last.op = "accept" /\ last.res = "UnauthorizedToAccept"
  /\ last.in.key # games[last.in.g].players[1]
  /\ games[last.in.g].state = Unaccepted

\* C17: a create with stake_amount = 0 or with player_two equal to the creator
\* fails with InvalidArgument and changes no record and no balance; every
\* stored game has players[0] # players[1] and stake_amount > 0.
C17_Step ==
  /\ (last'.op = "create"
        /\ (last'.in.stake_amount = 0 \/ last'.in.player_two = last'.in.key))
       => (last'.res = "InvalidArgument" /\ UNCHANGED store)
  /\ \A g \in GameKeys :
       /\ owned[g] => (games[g].players[0] # games[g].players[1]
                         /\ games[g].stake_amount > 0)
       /\ owned'[g] => (games'[g].players[0] # games'[g].players[1]
                          /\ games'[g].stake_amount > 0)

C17_CreateArgs == [][C17_Step]_vars

\* a create that invites its own creator with a positive stake was refused
C17_Witness ==
  /\ last.op = "create" /\ last.res = "InvalidArgument"
  /\ last.in.player_two = last.in.key
  /\ last.in.stake_amount > 0

\* C18: a create signed by the creator and the game account, with
\* player_two # creator, stake_amount > 0, the system and token programs, the
\* derived escrow address, a mint and a token account of the creator,
\* succeeds.
C18_CreateSucceeds ==
  (/\ last.op = "create"
   /\ last.in.signer /\ last.in.game_signer
   /\ last.in.player_two # last.in.key /\ last.in.stake_amount > 0
   /\ last.in.fault = "ok"
   /\ ~last.in.mint_is_program /\ ~last.in.token_is_program)
    => last.res = "Ok"

\* C19: an instruction that returns an error changes no record and no
\* balance; whenever more has been moved into escrow for a game than out of
\* it, the game account exists.
C19_Step ==
  /\ (last'.op # "none" /\ last'.res # "Ok") => UNCHANGED store
  /\ \A g \in GameKeys : captured'[g] > released'[g] => owned'[g]

C19_AllOrNothing == [][C19_Step]_vars

\* C20: a buffer is decoded to an instruction, and its handler called, exactly
\* when its first byte is 0..4 and the bytes after it number 40 for 0
\* (CreateGame), 2 for 2 (PlayGame) and 0 for 1, 3 and 4 (AcceptGame,
\* CloseGame, CancelGame); every other buffer is refused with
\* InvalidInstructionData and no handler is called.
C20_DecodeStrict ==
  last.op = "process" =>
    LET data == last.data
        layout == [o \in 0..4 |-> IF o = 0 THEN 40 ELSE IF o = 2 THEN 2 ELSE 0]
        variants == [o \in 0..4 |->
                       IF o = 0 THEN "CreateGame" ELSE IF o = 1 THEN "AcceptGame"
                       ELSE IF o = 2 THEN "PlayGame" ELSE IF o = 3 THEN "CloseGame"
                       ELSE "CancelGame"]
    IN IF data # <<>> /\ Head(data) \in 0..4 /\ Len(Tail(data)) = layout[Head(data)]
       THEN /\ last.res = "Ok"
            /\ last.instruction.variant = variants[Head(data)]
            /\ last.dispatched # "none"
       ELSE /\ last.res = "InvalidInstructionData"
            /\ last.dispatched = "none"

\* a symbol fills a whole row or a whole column of board b
C21_Line(b) ==
  \E s \in Symbols, k \in 0..2 :
    \/ \A c \in 0..2 : b[k][c] = s
    \/ \A r \in 0..2 : b[r][k] = s

\* a symbol fills a diagonal of board b
C21_Diagonal(b) ==
  \E s \in Symbols :
    \/ \A k \in 0..2 : b[k][k] = s
    \/ \A k \in 0..2 : b[k][2 - k] = s

\* C21: after a successful play the state is Over exactly when a symbol fills
\* a row or a column; otherwise it is Draw exactly when turns = 9, and
\* Ongoing when turns < 9.  A filled diagonal without a filled row or column
\* leaves the game Ongoing before the ninth move and Draw at the ninth; a
\* ninth move that fills a row or a column gives Over.
C21_TerminalDetection ==
  (last.op = "play" /\ last.res = "Ok") =>
    /\ mem.state.tag = "Over" <=> C21_Line(mem.board)
    /\ ~C21_Line(mem.board) =>
         /\ mem.state = Draw <=> mem.turns = 9
         /\ mem.turns # 9 => mem.state = Ongoing
    /\ (C21_Diagonal(mem.board) /\ ~C21_Line(mem.board)) =>
         mem.state = (IF mem.turns = 9 THEN Draw ELSE Ongoing)
    /\ (mem.turns = 9 /\ C21_Line(mem.board)) => mem.state.tag = "Over"

\* a play has filled a diagonal, no row or column is filled, and the game
\* goes on
C21_Witness ==
  /\ last.op = "play" /\ last.res = "Ok"
  /\ C21_Diagonal(mem.board) /\ ~C21_Line(mem.board)
  /\ ~C21_Diagonal(last.before.board)
  /\ mem.state = Ongoing

\* C22: when valid plays keep being submitted, a stored game that is Ongoing
\* is eventually Over or Draw (or its account is gone).
C22_Terminates ==
  \A g \in GameKeys :
    (owned[g] /\ games[g].state = Ongoing) ~> (~owned[g] \/ Terminal(games[g]))

====
